---- MODULE Spec2Model ----
(***************************************************************************)
(* Vozlia Control: the admin API over User, UserSetting and EmailAccount   *)
(* rows (control_main.py, services/settings_service.py,                   *)
(* services/user_service.py).                                              *)
(*                                                                         *)
(* Spec          requests served one after the other, each handler one    *)
(*               action (email-account endpoints).                         *)
(* SpecSettings  the settings store, its typed accessors and the settings  *)
(*               endpoints, calls served one after the other.              *)
(* SpecUser      concurrent get_or_create_primary_user calls, statement by *)
(*               statement.                                                *)
(* SpecUpsert    concurrent set_setting calls, statement by statement.     *)
(* SpecPrimary   two concurrent patch_email_account requests, each its own *)
(*               transaction, statement by statement.                      *)
(* SpecPartial   one mutating request at a time, commit by commit, with    *)
(*               persistence failures and concurrent readers.              *)
(* SpecApi       the five admin routes behind require_admin_key, requests  *)
(*               served one after the other.                               *)
(***************************************************************************)
EXTENDS Integers, Sequences, FiniteSets, TLC

VARIABLES
    users,      \* User table: set of rows [id, email]
    accounts,   \* EmailAccount table: account id -> row
    settings,   \* UserSetting table: user id -> key -> values of the rows
    deleted,    \* history: the account ids a hard disconnect removed
    proc,       \* requests in flight: request -> its position and local values
    last,       \* the request served last
    resp        \* its response

vars == <<users, accounts, settings, deleted, proc, last, resp>>

----------------------------------------------------------------------------
(* Text values.  A Python str is a sequence of characters; None is Null.   *)

\* the display names requests carry: empty, blank, padded
Str == {<<>>, <<" ">>, <<" ", "a", " ">>}

Null == [isNull |-> TRUE, v |-> <<>>]

Some(s) == [isNull |-> FALSE, v |-> s]

RECURSIVE LStrip(_)
LStrip(s) ==
    IF s = <<>> THEN s
    ELSE IF Head(s) = " " THEN LStrip(Tail(s)) ELSE s

RECURSIVE RStrip(_)
RStrip(s) ==
    IF s = <<>> THEN s
    ELSE IF s[Len(s)] = " " THEN RStrip(SubSeq(s, 1, Len(s) - 1)) ELSE s

\* str.strip()
Strip(s) == RStrip(LStrip(s))

\* (x or "").strip() or None
StripOrNone(x) ==
    LET t == Strip(IF x.isNull THEN <<>> ELSE x.v)
    IN  IF t = <<>> THEN Null ELSE Some(t)

----------------------------------------------------------------------------
(* JSON documents of UserSetting.value.                                     *)

JSON(t, str, b, l) == [t |-> t, s |-> str, b |-> b, l |-> l]

JAbsent == JSON("absent", <<>>, FALSE, <<>>)

JNull == JSON("null", <<>>, FALSE, <<>>)

JStr(str) == JSON("str", str, FALSE, <<>>)

JBool(b) == JSON("bool", <<>>, b, <<>>)

JList(l) == JSON("list", <<>>, FALSE, l)

\* the keys the documents of this service use
Fields == {"text", "enabled", "account_id", "account_ids"}

\* {}
EmptyDoc == [f \in Fields |-> JAbsent]

\* {f: v}
Doc(f, v) == [EmptyDoc EXCEPT ![f] = v]

\* dict.get(f)
DictGet(d, f) == IF d[f] = JAbsent THEN JNull ELSE d[f]

\* a stored value that is a dict, and one that is not
DictValue(d) == [isDict |-> TRUE, d |-> d]

ScalarValue == [isDict |-> FALSE, d |-> EmptyDoc]

\* bool(x) of a JSON value
Truthy(j) ==
    CASE j.t = "bool" -> j.b
      [] j.t = "str"  -> j.s # <<>>
      [] j.t = "list" -> j.l # <<>>
      [] OTHER        -> FALSE

----------------------------------------------------------------------------
(* Users.                                                                   *)

ADMIN_EMAIL == "admin@vozlia"

OtherEmail == "other@vozlia"

AdminRow == [id |-> "u-admin", email |-> ADMIN_EMAIL]

OtherRow == [id |-> "u-other", email |-> OtherEmail]

UserIds == {AdminRow.id, OtherRow.id}

\* db.query(User).filter(User.email == email).first()
FindUser(us, email) ==
    IF \E u \in us : u.email = email
    THEN {CHOOSE u \in us : u.email = email}
    ELSE {}

\* the primary keys the database hands to new User rows, in this order
UserIdPool == <<"u-admin", "u-admin-2", "u-admin-3", "u-admin-4", "u-admin-5">>

FreshUserId(us) ==
    UserIdPool[CHOOSE k \in 1..Len(UserIdPool) :
                  /\ \A u \in us : u.id # UserIdPool[k]
                  /\ \A j \in 1..(k - 1) : \E u \in us : u.id = UserIdPool[j]]

\* User(email=email); db.add(user)
NewUser(us, email) == [id |-> FreshUserId(us), email |-> email]

\* get_or_create_primary_user, run alone: the User table it leaves
UsersAfterResolve(us) ==
    IF FindUser(us, ADMIN_EMAIL) # {} THEN us ELSE us \cup {NewUser(us, ADMIN_EMAIL)}

\* get_or_create_primary_user, run alone: the row it returns
PrimaryUser(us) == CHOOSE u \in FindUser(UsersAfterResolve(us), ADMIN_EMAIL) : TRUE

----------------------------------------------------------------------------
(* Email accounts.                                                          *)

AccountIds == {"A", "B", "C"}

SecretFields ==
    {"oauth_access_token", "oauth_refresh_token", "oauth_expires_at", "password_enc"}

Tok == Some(<<"a">>)

\* creation order of the rows (EmailAccount.created_at)
CreatedAt(id) == CASE id = "A" -> 1 [] id = "B" -> 2 [] OTHER -> 3

Account(uid, id, prim, act, oauth, pwd) ==
    [user_id |-> uid, display_name |-> Null,
     is_primary |-> prim, is_active |-> act,
     oauth_access_token |-> IF oauth THEN Tok ELSE Null,
     oauth_refresh_token |-> IF oauth THEN Tok ELSE Null,
     oauth_expires_at |-> IF oauth THEN Tok ELSE Null,
     password_enc |-> IF pwd THEN Tok ELSE Null,
     created_at |-> CreatedAt(id)]

\* Optional[bool] of a request body
NoneB == [given |-> FALSE, v |-> FALSE]

SomeB(b) == [given |-> TRUE, v |-> b]

OptBool == {NoneB, SomeB(TRUE), SomeB(FALSE)}

OptStr == {Null} \cup {Some(s) : s \in Str}

\* EmailAccountPatch
EmailAccountPatch ==
    [is_active : OptBool, is_primary : OptBool, display_name : OptStr]

\* payload.model_dump(exclude_none=True): the keys it keeps
ModelDump(payload) ==
    {k \in {"is_active", "is_primary"} : payload[k].given}
    \cup {k \in {"display_name"} : ~payload[k].isNull}

\* a serializer that copies the encrypted password into its output
ToEmailOutWithPassword(id, a) ==
    [id |-> id, user_id |-> a.user_id, display_name |-> a.display_name,
     is_primary |-> a.is_primary, is_active |-> a.is_active,
     created_at |-> a.created_at, password_enc |-> a.password_enc]

\* _to_email_out
ToEmailOut(id, a) ==
    [id |-> id, user_id |-> a.user_id, display_name |-> a.display_name,
     is_primary |-> a.is_primary, is_active |-> a.is_active,
     created_at |-> a.created_at]

NoOut == [id |-> "", user_id |-> "", display_name |-> Null,
          is_primary |-> FALSE, is_active |-> FALSE, created_at |-> 0]

\* AdminSettingsOut
AdminSettingsOut(greeting, enabled, account_id, account_ids, addendum) ==
    [agent_greeting |-> greeting, gmail_summary_enabled |-> enabled,
     gmail_account_id |-> account_id, gmail_enabled_account_ids |-> account_ids,
     realtime_prompt_addendum |-> addendum]

NoSnapshot == AdminSettingsOut(<<>>, FALSE, Null, Null, <<>>)

\* responses and return values, one shape for all calls
Reply(code, out, rows, status, hard, doc, ids, snapshot) ==
    [code |-> code, out |-> out, rows |-> rows, status |-> status, hard |-> hard,
     doc |-> doc, ids |-> ids, snapshot |-> snapshot]

\* responses of the email-account endpoints
Response(code, out, rows, status, hard) ==
    Reply(code, out, rows, status, hard, EmptyDoc, Null, NoSnapshot)

NotFound == Response(404, NoOut, <<>>, "Email account not found", FALSE)

\* a lookup that skips disconnected rows
FindActiveAccount(accts, account_id, uid) ==
    /\ account_id \in DOMAIN accts
    /\ accts[account_id].user_id = uid
    /\ accts[account_id].is_active = TRUE

\* a lookup by id alone
FindAccountOfAnyUser(accts, account_id, uid) == account_id \in DOMAIN accts

\* db.query(EmailAccount).filter(id == account_id, user_id == user.id).first()
FindAccount(accts, account_id, uid) ==
    account_id \in DOMAIN accts /\ accts[account_id].user_id = uid

\* a patch that restores a credential when it activates the row
ReconnectOnActivate(a, payload) ==
    [a EXCEPT !.is_active = IF payload.is_active.given THEN payload.is_active.v ELSE @,
              !.password_enc = IF payload.is_active = SomeB(TRUE) THEN Tok ELSE @]

\* the field assignments of patch_email_account on the row a
PatchFields(a, payload) ==
    LET data == ModelDump(payload)
        a1 == IF "display_name" \in data
              THEN [a EXCEPT !.display_name = StripOrNone(payload.display_name)]
              ELSE a
        a2 == IF "is_active" \in data
              THEN [a1 EXCEPT !.is_active = payload.is_active.v]
              ELSE a1
    IN  IF "is_primary" \in data /\ payload.is_primary.v = TRUE
        THEN [a2 EXCEPT !.is_primary = TRUE]
        ELSE a2

\* a patch that forgets the bulk UPDATE
DemoteNobody(accts, uid, account_id) == accts

\* a bulk UPDATE without the filter on the user
DemoteEveryUser(accts, uid, account_id) ==
    [i \in DOMAIN accts |->
        IF i # account_id THEN [accts[i] EXCEPT !.is_primary = FALSE] ELSE accts[i]]

\* "Demote others": the bulk UPDATE of patch_email_account
DemoteOthers(accts, uid, account_id) ==
    [i \in DOMAIN accts |->
        IF accts[i].user_id = uid /\ i # account_id
        THEN [accts[i] EXCEPT !.is_primary = FALSE]
        ELSE accts[i]]

\* the table after a patch that found its row
PatchedTable(accts, uid, account_id, payload) ==
    LET data == ModelDump(payload)
        demoted == IF "is_primary" \in data /\ payload.is_primary.v = TRUE
                   THEN DemoteOthers(accts, uid, account_id)
                   ELSE accts
    IN  [demoted EXCEPT ![account_id] = PatchFields(accts[account_id], payload)]

\* a soft disconnect that leaves the encrypted password behind
SoftDisconnectKeepsPassword(a) ==
    [a EXCEPT !.is_active = FALSE, !.is_primary = FALSE,
              !.oauth_access_token = Null, !.oauth_refresh_token = Null,
              !.oauth_expires_at = Null]

\* soft disconnect of the row a
SoftDisconnect(a) ==
    [a EXCEPT !.is_active = FALSE, !.is_primary = FALSE,
              !.oauth_access_token = Null, !.oauth_refresh_token = Null,
              !.oauth_expires_at = Null, !.password_enc = Null]

\* a hard disconnect that only deactivates the row
HardDeleteKeepsRow(accts, account_id) ==
    [accts EXCEPT ![account_id].is_active = FALSE, ![account_id].is_primary = FALSE]

\* db.delete(a)
HardDelete(accts, account_id) ==
    [i \in DOMAIN accts \ {account_id} |-> accts[i]]

\* the rows list_email_accounts selects
ListedIds(accts, uid, include_inactive) ==
    {i \in DOMAIN accts :
        /\ accts[i].user_id = uid
        /\ (include_inactive \/ accts[i].is_active = TRUE)}

\* order_by(EmailAccount.created_at.desc())
RECURSIVE OrderByCreatedDesc(_, _)
OrderByCreatedDesc(accts, ids) ==
    IF ids = {} THEN <<>>
    ELSE LET m == CHOOSE i \in ids :
                    \A j \in ids : accts[j].created_at <= accts[i].created_at
         IN  <<m>> \o OrderByCreatedDesc(accts, ids \ {m})

ListOut(accts, uid, include_inactive) ==
    LET s == OrderByCreatedDesc(accts, ListedIds(accts, uid, include_inactive))
    IN  [k \in 1..Len(s) |-> ToEmailOut(s[k], accts[s[k]])]

----------------------------------------------------------------------------
(* Settings store and typed accessors (services/settings_service.py).       *)

GreetingText == <<"Hello! How can I assist you today?">>

AccountIdText == <<"d8c8cd99-c9bc-4e8c-a560-d220782665a1">>

AddendumText == <<"CALL OPENING RULE (FIRST UTTERANCE ONLY): ...">>

RecognizedKeys ==
    {"agent_greeting", "gmail_summary_enabled", "gmail_account_id",
     "gmail_enabled_accounts", "realtime_prompt_addendum"}

\* a key DEFAULTS does not have
Keys == RecognizedKeys \cup {"unregistered"}

DEFAULTS ==
    [k \in RecognizedKeys |->
        CASE k = "agent_greeting"         -> Doc("text", JStr(GreetingText))
          [] k = "gmail_summary_enabled"  -> Doc("enabled", JBool(TRUE))
          [] k = "gmail_account_id"       -> Doc("account_id", JStr(AccountIdText))
          [] k = "gmail_enabled_accounts" -> Doc("account_ids", JList(<<>>))
          [] OTHER                        -> Doc("text", JStr(AddendumText))]

\* db.query(UserSetting).filter(user_id == user.id, key == key): the matching
\* rows' values, oldest first
FindSetting(rows, uid, key) == rows[uid][key]

\* a get_setting that looks only at the defaults table
DefaultsOnly(rows, uid, key) ==
    IF key \in DOMAIN DEFAULTS THEN DEFAULTS[key] ELSE EmptyDoc

\* get_setting
get_setting(rows, uid, key) ==
    LET row == FindSetting(rows, uid, key)
    IN  IF row # <<>> /\ Head(row).isDict
        THEN Head(row).d
        ELSE IF key \in DOMAIN DEFAULTS THEN DEFAULTS[key] ELSE EmptyDoc

\* a set_setting that adds a row at every call
InsertOnly(rows, uid, key, value) ==
    [rows EXCEPT ![uid][key] = Append(@, DictValue(value))]

\* set_setting, run alone: the table it leaves
set_setting(rows, uid, key, value) ==
    LET row == FindSetting(rows, uid, key)
    IN  IF row # <<>>
        THEN [rows EXCEPT ![uid][key][1] = DictValue(value)]
        ELSE [rows EXCEPT ![uid][key] = <<DictValue(value)>>]

\* a text accessor without the fallback to the default text
TextAsStored(v, default) ==
    LET txt == DictGet(v, "text")
    IN  IF txt.t = "str" THEN Strip(txt.s) ELSE default

\* the text accessors: trimmed text, or the default text
TextOrDefault(v, default) ==
    LET txt == DictGet(v, "text")
    IN  IF txt.t = "str" /\ Strip(txt.s) # <<>> THEN Strip(txt.s) ELSE default

get_agent_greeting(rows, uid) ==
    TextOrDefault(get_setting(rows, uid, "agent_greeting"), GreetingText)

get_realtime_prompt_addendum(rows, uid) ==
    TextOrDefault(get_setting(rows, uid, "realtime_prompt_addendum"), AddendumText)

gmail_summary_enabled(rows, uid) ==
    LET enabled == DictGet(get_setting(rows, uid, "gmail_summary_enabled"), "enabled")
    IN  IF enabled = JNull THEN TRUE ELSE Truthy(enabled)

get_selected_gmail_account_id(rows, uid) ==
    LET account_id == DictGet(get_setting(rows, uid, "gmail_account_id"), "account_id")
    IN  IF account_id.t = "str" /\ Strip(account_id.s) # <<>>
        THEN Some(Strip(account_id.s))
        ELSE Null

\* [str(x).strip() for x in account_ids if str(x).strip()]
RECURSIVE Cleaned(_)
Cleaned(l) ==
    IF l = <<>> THEN <<>>
    ELSE IF Strip(Head(l)) # <<>>
         THEN <<Strip(Head(l))>> \o Cleaned(Tail(l))
         ELSE Cleaned(Tail(l))

\* an accessor that treats the empty list like a missing one
NoneWhenEmpty(rows, uid) ==
    LET account_ids ==
            DictGet(get_setting(rows, uid, "gmail_enabled_accounts"), "account_ids")
    IN  IF account_ids.t = "list" /\ account_ids.l # <<>>
        THEN Some(Cleaned(account_ids.l))
        ELSE Null

get_enabled_gmail_account_ids(rows, uid) ==
    LET account_ids ==
            DictGet(get_setting(rows, uid, "gmail_enabled_accounts"), "account_ids")
    IN  IF account_ids = JNull THEN Null
        ELSE IF account_ids.t = "list" THEN Some(Cleaned(account_ids.l))
        ELSE Null

set_enabled_gmail_account_ids(rows, uid, account_ids) ==
    set_setting(rows, uid, "gmail_enabled_accounts",
                Doc("account_ids", JList(Cleaned(account_ids))))

\* the empty UserSetting table
NoSettings == [u \in UserIds |-> [k \in Keys |-> <<>>]]

\* get_settings, after the user is resolved
Snapshot(rows, uid) ==
    AdminSettingsOut(get_agent_greeting(rows, uid),
                     gmail_summary_enabled(rows, uid),
                     get_selected_gmail_account_id(rows, uid),
                     get_enabled_gmail_account_ids(rows, uid),
                     get_realtime_prompt_addendum(rows, uid))

----------------------------------------------------------------------------
(* Requests served one at a time.                                          *)

\* rows of the user uid with is_primary set
Primaries(accts, uid) ==
    {i \in DOMAIN accts : accts[i].user_id = uid /\ accts[i].is_primary = TRUE}

\* a served request, with the primary rows of the admin user it found
Request(op, id, payload, hard, inc, before) ==
    [op |-> op, id |-> id, payload |-> payload, hard |-> hard,
     include_inactive |-> inc, primary_before |-> before]

NoPayload == [is_active |-> NoneB, is_primary |-> NoneB, display_name |-> Null]

\* the tables a run starts from: at most one primary row per user; C is the
\* admin's or another user's
InitAccounts ==
    {[i \in AccountIds |->
        IF i = "C" /\ ~own THEN Account(OtherRow.id, i, TRUE, TRUE, TRUE, FALSE)
        ELSE Account(AdminRow.id, i, i = p, i # "B", i = "A", i = "A")]
     : p \in AccountIds \cup {"none"}, own \in BOOLEAN}

Init ==
    /\ \/ /\ users = {AdminRow, OtherRow}
          /\ accounts \in InitAccounts
       \/ /\ users = {OtherRow}
          /\ accounts = [i \in {"C"} |-> Account(OtherRow.id, i, TRUE, TRUE, TRUE, FALSE)]
    /\ settings = NoSettings
    /\ deleted = {}
    /\ proc = <<>>
    /\ last = Request("none", "", NoPayload, FALSE, FALSE, {})
    /\ resp = Response(0, NoOut, <<>>, "", FALSE)

\* GET /admin/email-accounts
ListEmailAccounts(include_inactive) ==
    LET user == PrimaryUser(users)
    IN  /\ users' = UsersAfterResolve(users)
        /\ accounts' = accounts
        /\ UNCHANGED <<settings, deleted, proc>>
        /\ resp' = Response(200, NoOut, ListOut(accounts, user.id, include_inactive), "", FALSE)
        /\ last' = Request("list", "", NoPayload, FALSE, include_inactive, {})

\* PATCH /admin/email-accounts/{account_id}
PatchEmailAccount(account_id, payload) ==
    LET user == PrimaryUser(users)
    IN  /\ users' = UsersAfterResolve(users)
        /\ last' = Request("patch", account_id, payload, FALSE, FALSE,
                         Primaries(accounts, user.id))
        /\ UNCHANGED <<settings, deleted, proc>>
        /\ IF ~FindAccount(accounts, account_id, user.id)
           THEN /\ accounts' = accounts
                /\ resp' = NotFound
           ELSE /\ accounts' = PatchedTable(accounts, user.id, account_id, payload)
                /\ resp' = Response(200, ToEmailOut(account_id, accounts'[account_id]),
                                    <<>>, "", FALSE)

\* DELETE /admin/email-accounts/{account_id}?hard=
DeleteEmailAccount(account_id, hard) ==
    LET user == PrimaryUser(users)
    IN  /\ users' = UsersAfterResolve(users)
        /\ last' = Request("delete", account_id, NoPayload, hard, FALSE, {})
        /\ UNCHANGED <<settings, proc>>
        /\ IF ~FindAccount(accounts, account_id, user.id)
           THEN /\ accounts' = accounts
                /\ deleted' = deleted
                /\ resp' = NotFound
           ELSE IF hard
           THEN /\ accounts' = HardDelete(accounts, account_id)
                /\ deleted' = deleted \cup {account_id}
                /\ resp' = Response(200, NoOut, <<>>, "deleted", TRUE)
           ELSE /\ accounts' = [accounts EXCEPT ![account_id] = SoftDisconnect(@)]
                /\ deleted' = deleted
                /\ resp' = Response(200, NoOut, <<>>, "disconnected", FALSE)

Next ==
    \/ \E inc \in BOOLEAN : ListEmailAccounts(inc)
    \/ \E id \in AccountIds, p \in EmailAccountPatch : PatchEmailAccount(id, p)
    \/ \E id \in AccountIds, h \in BOOLEAN : DeleteEmailAccount(id, h)

Spec == Init /\ [][Next]_vars

----------------------------------------------------------------------------
(* The settings store and endpoints, calls served one at a time.           *)

OptIds == {Null, Some(<<>>), Some(<< <<" ">>, <<" ", "a", " ">> >>)}

\* AdminSettingsPatch
AdminSettingsPatch ==
    [agent_greeting            : {Null, Some(<<" ">>), Some(<<" ", "a", " ">>)},
     gmail_summary_enabled     : OptBool,
     gmail_account_id          : {Null, Some(<<" ", "a", " ">>)},
     gmail_enabled_account_ids : OptIds \ {Some(<<>>)},
     realtime_prompt_addendum  : {Null, Some(<<" ">>), Some(<<" ", "a", " ">>)}]

NoSettingsPatch ==
    [agent_greeting |-> Null, gmail_summary_enabled |-> NoneB,
     gmail_account_id |-> Null, gmail_enabled_account_ids |-> Null,
     realtime_prompt_addendum |-> Null]

\* the order in which patch_settings writes the fields
PatchOrder ==
    <<"agent_greeting", "gmail_summary_enabled", "gmail_account_id",
      "gmail_enabled_account_ids", "realtime_prompt_addendum">>

\* payload.model_dump(exclude_none=True): the keys it keeps
SettingsDump(payload) ==
    {f \in {"gmail_summary_enabled"} : payload[f].given}
    \cup {f \in {"agent_greeting", "gmail_account_id", "gmail_enabled_account_ids",
                 "realtime_prompt_addendum"} : ~payload[f].isNull}

\* the write patch_settings makes for one field of the body
WriteField(rows, uid, payload, f) ==
    CASE f = "agent_greeting" ->
            set_setting(rows, uid, "agent_greeting",
                        Doc("text", JStr(Strip(payload.agent_greeting.v))))
      [] f = "gmail_summary_enabled" ->
            set_setting(rows, uid, "gmail_summary_enabled",
                        Doc("enabled", JBool(payload.gmail_summary_enabled.v)))
      [] f = "gmail_account_id" ->
            set_setting(rows, uid, "gmail_account_id",
                        Doc("account_id", JStr(Strip(payload.gmail_account_id.v))))
      [] f = "gmail_enabled_account_ids" ->
            set_enabled_gmail_account_ids(rows, uid, payload.gmail_enabled_account_ids.v)
      [] OTHER ->
            set_setting(rows, uid, "realtime_prompt_addendum",
                        Doc("text", JStr(Strip(payload.realtime_prompt_addendum.v))))

\* a patch_settings that writes every field of the model, given or not
RECURSIVE WriteAll(_, _, _, _)
WriteAll(rows, uid, payload, k) ==
    IF k > Len(PatchOrder) THEN rows
    ELSE WriteAll(WriteField(rows, uid, payload, PatchOrder[k]), uid, payload, k + 1)

\* the writes of patch_settings from the k-th field of PatchOrder on
RECURSIVE WriteFrom(_, _, _, _)
WriteFrom(rows, uid, payload, k) ==
    IF k > Len(PatchOrder) THEN rows
    ELSE WriteFrom(IF PatchOrder[k] \in SettingsDump(payload)
                   THEN WriteField(rows, uid, payload, PatchOrder[k])
                   ELSE rows,
                   uid, payload, k + 1)

SettingsReply(doc, ids, snapshot) ==
    Reply(200, NoOut, <<>>, "", FALSE, doc, ids, snapshot)

SettingsRequest(op, key, payload) == [op |-> op, key |-> key, payload |-> payload]

\* rows other writers of the table may have left: a value that is not a dict,
\* dicts without the field or with a null or mistyped field, another user's row
InitSettings ==
    {NoSettings,
     [NoSettings EXCEPT ![AdminRow.id]["gmail_enabled_accounts"] = <<ScalarValue>>],
     [NoSettings EXCEPT ![AdminRow.id]["gmail_enabled_accounts"] =
                            <<DictValue(Doc("account_ids", JNull))>>],
     [NoSettings EXCEPT ![AdminRow.id]["gmail_enabled_accounts"] =
                            <<DictValue(Doc("account_ids", JStr(<<"a">>)))>>],
     [NoSettings EXCEPT ![AdminRow.id]["agent_greeting"] = <<DictValue(EmptyDoc)>>],
     [NoSettings EXCEPT ![AdminRow.id]["unregistered"] =
                            <<DictValue(Doc("text", JStr(<<" ">>)))>>],
     [NoSettings EXCEPT ![OtherRow.id]["gmail_summary_enabled"] =
                            <<DictValue(Doc("enabled", JBool(FALSE)))>>]}

InitSettingsStore ==
    /\ users = {AdminRow, OtherRow}
    /\ accounts = [i \in {"A"} |-> Account(AdminRow.id, i, TRUE, TRUE, TRUE, TRUE)]
    /\ settings \in InitSettings
    /\ deleted = {}
    /\ proc = <<>>
    /\ last = SettingsRequest("none", "", NoSettingsPatch)
    /\ resp = SettingsReply(EmptyDoc, Null, NoSnapshot)

\* get_setting(db, user, key)
GetSetting(key) ==
    /\ resp' = SettingsReply(get_setting(settings, AdminRow.id, key), Null, NoSnapshot)
    /\ last' = SettingsRequest("get_setting", key, NoSettingsPatch)
    /\ UNCHANGED <<users, accounts, settings, deleted, proc>>

\* get_enabled_gmail_account_ids(db, user)
GetEnabledGmailAccountIds ==
    /\ resp' = SettingsReply(EmptyDoc, get_enabled_gmail_account_ids(settings, AdminRow.id),
                             NoSnapshot)
    /\ last' = SettingsRequest("get_enabled_ids", "gmail_enabled_accounts", NoSettingsPatch)
    /\ UNCHANGED <<users, accounts, settings, deleted, proc>>

\* set_enabled_gmail_account_ids(db, user, account_ids)
SetEnabledGmailAccountIds(account_ids) ==
    /\ settings' = set_enabled_gmail_account_ids(settings, AdminRow.id, account_ids)
    /\ resp' = SettingsReply(EmptyDoc, Null, NoSnapshot)
    /\ last' = SettingsRequest("set_enabled_ids", "gmail_enabled_accounts",
                               [NoSettingsPatch EXCEPT
                                    !.gmail_enabled_account_ids = Some(account_ids)])
    /\ UNCHANGED <<users, accounts, deleted, proc>>

\* GET /admin/settings
GetSettings ==
    /\ users' = UsersAfterResolve(users)
    /\ resp' = SettingsReply(EmptyDoc, Null, Snapshot(settings, PrimaryUser(users).id))
    /\ last' = SettingsRequest("get_settings", "", NoSettingsPatch)
    /\ UNCHANGED <<accounts, settings, deleted, proc>>

\* PATCH /admin/settings
PatchSettings(payload) ==
    /\ users' = UsersAfterResolve(users)
    /\ settings' = WriteFrom(settings, PrimaryUser(users).id, payload, 1)
    /\ resp' = SettingsReply(EmptyDoc, Null, Snapshot(settings', PrimaryUser(users).id))
    /\ last' = SettingsRequest("patch_settings", "", payload)
    /\ UNCHANGED <<accounts, deleted, proc>>

NextSettings ==
    \/ \E k \in Keys : GetSetting(k)
    \/ GetEnabledGmailAccountIds
    \/ \E ids \in {x.v : x \in OptIds \ {Null}} : SetEnabledGmailAccountIds(ids)
    \/ GetSettings
    \/ \E p \in AdminSettingsPatch : PatchSettings(p)

SpecSettings == InitSettingsStore /\ [][NextSettings]_vars

----------------------------------------------------------------------------
(* Constraints of the schema (models.py).                                  *)

\* unique(User.email): may a row with this email be inserted
EmailUnique(us, email) == \A u \in us : u.email # email

\* a UserSetting table without the constraint
AnyUserKey(rows, uid, key) == TRUE

\* unique(UserSetting.user_id, UserSetting.key): may a row be inserted
UserKeyUnique(rows, uid, key) == rows[uid][key] = <<>>

----------------------------------------------------------------------------
(* get_or_create_primary_user by concurrent requests (SpecUser).  Each      *)
(* request has its own session; a query reads what is committed.            *)

NumCallers == 3

Callers == 1..NumCallers

NoUser == [id |-> "", email |-> ""]

Caller(pc, ret) == [pc |-> pc, ret |-> ret]

InitUser ==
    /\ users \in {{}, {OtherRow}}
    /\ accounts = <<>>
    /\ settings = NoSettings
    /\ deleted = {}
    /\ proc = [c \in Callers |-> Caller("start", NoUser)]
    /\ last = SettingsRequest("none", "", NoSettingsPatch)
    /\ resp = SettingsReply(EmptyDoc, Null, NoSnapshot)

\* user = db.query(User).filter(User.email == email).first(); if user: return user
LookupUser(c) ==
    /\ proc[c].pc = "start"
    /\ LET found == FindUser(users, ADMIN_EMAIL)
       IN  proc' = [proc EXCEPT ![c] =
                        IF found # {}
                        THEN Caller("done", CHOOSE u \in found : TRUE)
                        ELSE Caller("adding", NoUser)]
    /\ UNCHANGED <<users, accounts, settings, deleted, last, resp>>

\* user = User(email=email); db.add(user); db.commit()
InsertUser(c) ==
    /\ proc[c].pc = "adding"
    /\ IF EmailUnique(users, ADMIN_EMAIL)
       THEN /\ users' = users \cup {NewUser(users, ADMIN_EMAIL)}
            /\ proc' = [proc EXCEPT ![c] = Caller("committed", NewUser(users, ADMIN_EMAIL))]
       ELSE \* IntegrityError out of db.commit(): nothing catches it
            /\ users' = users
            /\ proc' = [proc EXCEPT ![c] = Caller("failed", NoUser)]
    /\ UNCHANGED <<accounts, settings, deleted, last, resp>>

\* db.refresh(user); return user
RefreshUser(c) ==
    /\ proc[c].pc = "committed"
    /\ proc' = [proc EXCEPT ![c].pc = "done"]
    /\ UNCHANGED <<users, accounts, settings, deleted, last, resp>>

NextUser ==
    \/ \E c \in Callers : LookupUser(c)
    \/ \E c \in Callers : InsertUser(c)
    \/ \E c \in Callers : RefreshUser(c)

SpecUser == InitUser /\ [][NextUser]_vars

----------------------------------------------------------------------------
(* set_setting by concurrent requests (SpecUpsert).                        *)

NumWriters == 2

Writers == 1..NumWriters

UpsertKeys == {"agent_greeting", "gmail_account_id"}

UpsertValues == {Doc("text", JStr(<<"a">>)), Doc("account_id", JStr(<<"a">>))}

\* a call: where it is, its arguments, whether its query found a row, the
\* position of the row it holds among the rows of its key, what it returned
Writer(pc, key, value, seen, row, ret) ==
    [pc |-> pc, key |-> key, value |-> value, seen |-> seen, row |-> row, ret |-> ret]

InitUpsert ==
    /\ users = {AdminRow, OtherRow}
    /\ accounts = <<>>
    /\ settings \in
         {NoSettings,
          [NoSettings EXCEPT ![AdminRow.id]["agent_greeting"] =
                                 <<DictValue(Doc("text", JStr(<<" ">>)))>>]}
    /\ deleted = {}
    /\ proc \in [Writers ->
                    {Writer("start", k, v, FALSE, 0, EmptyDoc) :
                        k \in UpsertKeys, v \in UpsertValues}]
    /\ last = SettingsRequest("none", "", NoSettingsPatch)
    /\ resp = SettingsReply(EmptyDoc, Null, NoSnapshot)

\* row = db.query(UserSetting).filter(...).first()
QuerySetting(w) ==
    LET rows == FindSetting(settings, AdminRow.id, proc[w].key)
    IN  /\ proc[w].pc = "start"
        /\ proc' = [proc EXCEPT ![w].pc = "queried",
                                ![w].seen = rows # <<>>,
                                ![w].row = IF rows # <<>> THEN 1 ELSE 0]
        /\ UNCHANGED <<users, accounts, settings, deleted, last, resp>>

\* row.value = value, or db.add(UserSetting(...)); then db.commit()
CommitSetting(w) ==
    LET key == proc[w].key
    IN  /\ proc[w].pc = "queried"
        /\ IF proc[w].seen
           THEN /\ settings' = [settings EXCEPT ![AdminRow.id][key][proc[w].row] =
                                                    DictValue(proc[w].value)]
                /\ proc' = [proc EXCEPT ![w].pc = "committed"]
           ELSE IF UserKeyUnique(settings, AdminRow.id, key)
           THEN /\ settings' = [settings EXCEPT ![AdminRow.id][key] =
                                                    Append(@, DictValue(proc[w].value))]
                /\ proc' = [proc EXCEPT ![w].pc = "committed",
                                        ![w].row = Len(settings[AdminRow.id][key]) + 1]
           ELSE \* IntegrityError out of db.commit(): nothing catches it
                /\ settings' = settings
                /\ proc' = [proc EXCEPT ![w].pc = "failed"]
        /\ UNCHANGED <<users, accounts, deleted, last, resp>>

\* db.refresh(row); return row.value
RefreshSetting(w) ==
    /\ proc[w].pc = "committed"
    /\ proc' = [proc EXCEPT ![w].pc = "done",
                            ![w].ret = settings[AdminRow.id][proc[w].key][proc[w].row].d]
    /\ UNCHANGED <<users, accounts, settings, deleted, last, resp>>

NextUpsert ==
    \/ \E w \in Writers : QuerySetting(w)
    \/ \E w \in Writers : CommitSetting(w)
    \/ \E w \in Writers : RefreshSetting(w)

SpecUpsert == InitUpsert /\ [][NextUpsert]_vars

----------------------------------------------------------------------------
(* patch_email_account by two concurrent requests (SpecPrimary).  Each     *)
(* request is one transaction under read-committed isolation: a statement  *)
(* reads what is committed; a row a transaction has written stays locked   *)
(* against other writers until that transaction commits or is rolled back. *)

Patchers == {1, 2}

\* the body of a request that sets is_primary, with or without is_active
PrimaryPatches ==
    {[is_active |-> a, is_primary |-> SomeB(TRUE), display_name |-> Null] :
        a \in {NoneB, SomeB(FALSE)}}

NoWrites == [i \in {} |-> TRUE]

\* a transaction: where it is, its arguments, the row as the session loaded it,
\* the rows its bulk UPDATE has still to visit, and its uncommitted writes of
\* is_primary and is_active
Patcher(pc, id, payload, loaded, todo, wp, wa) ==
    [pc |-> pc, id |-> id, payload |-> payload, loaded |-> loaded,
     todo |-> todo, wp |-> wp, wa |-> wa]

\* the rows transaction t has written and not yet committed
Written(t) == DOMAIN proc[t].wp \cup DOMAIN proc[t].wa

\* row i is locked by a transaction other than t
LockedByOther(i, t) == \E u \in Patchers \ {t} : i \in Written(u)

\* a bulk UPDATE filtered on the rows that were primary when the statement began
RowsThatWerePrimary(accts, uid, account_id) ==
    {i \in DOMAIN accts :
        accts[i].user_id = uid /\ i # account_id /\ accts[i].is_primary}

\* the rows the bulk UPDATE "Demote others" visits
RowsToDemote(accts, uid, account_id) ==
    {i \in DOMAIN accts : accts[i].user_id = uid /\ i # account_id}

InitPrimary ==
    /\ users = {AdminRow, OtherRow}
    /\ accounts \in
         {[i \in AccountIds |-> Account(AdminRow.id, i, i = p, TRUE, FALSE, FALSE)] :
            p \in AccountIds \cup {"none"}}
    /\ settings = NoSettings
    /\ deleted = {}
    /\ proc \in [Patchers ->
                    {Patcher("start", i, p, NoOut, {}, NoWrites, NoWrites) :
                        i \in AccountIds, p \in PrimaryPatches}]
    /\ last = Request("none", "", NoPayload, FALSE, FALSE, {})
    /\ resp = Response(0, NoOut, <<>>, "", FALSE)

\* a = db.query(EmailAccount).filter(...).first()
LoadAccount(t) ==
    /\ proc[t].pc = "start"
    /\ proc' = [proc EXCEPT ![t].pc = "loaded",
                            ![t].loaded = ToEmailOut(proc[t].id, accounts[proc[t].id])]
    /\ UNCHANGED <<users, accounts, settings, deleted, last, resp>>

\* a.is_active = ...; the session flushes the change ahead of the bulk UPDATE
FlushIsActive(t) ==
    LET id      == proc[t].id
        changed == /\ "is_active" \in ModelDump(proc[t].payload)
                   /\ proc[t].payload.is_active.v # proc[t].loaded.is_active
    IN  /\ proc[t].pc = "loaded"
        /\ changed => ~LockedByOther(id, t)
        /\ proc' = [proc EXCEPT
                       ![t].pc = "demoting",
                       ![t].wa = IF changed
                                 THEN [i \in {id} |-> proc[t].payload.is_active.v]
                                 ELSE NoWrites,
                       ![t].todo = RowsToDemote(accounts, AdminRow.id, id)]
        /\ UNCHANGED <<users, accounts, settings, deleted, last, resp>>

\* the bulk UPDATE sets is_primary = false on one more row
DemoteRow(t, i) ==
    /\ proc[t].pc = "demoting"
    /\ i \in proc[t].todo
    /\ ~LockedByOther(i, t)
    /\ proc' = [proc EXCEPT
                   ![t].todo = @ \ {i},
                   ![t].wp = [j \in DOMAIN @ \cup {i} |-> FALSE]]
    /\ UNCHANGED <<users, accounts, settings, deleted, last, resp>>

\* a.is_primary = True; db.commit(): the flush writes the flag if the session
\* sees it change, then every write of the transaction becomes visible
CommitPatch(t) ==
    LET id      == proc[t].id
        changed == proc[t].loaded.is_primary # TRUE
        wp      == IF changed
                   THEN [j \in DOMAIN proc[t].wp \cup {id} |->
                            IF j = id THEN TRUE ELSE proc[t].wp[j]]
                   ELSE proc[t].wp
    IN  /\ proc[t].pc = "demoting"
        /\ proc[t].todo = {}
        /\ changed => ~LockedByOther(id, t)
        /\ accounts' =
             [j \in DOMAIN accounts |->
                [accounts[j] EXCEPT
                    !.is_primary = IF j \in DOMAIN wp THEN wp[j] ELSE @,
                    !.is_active = IF j \in DOMAIN proc[t].wa THEN proc[t].wa[j] ELSE @]]
        /\ proc' = [proc EXCEPT ![t].pc = "committed",
                                ![t].wp = NoWrites, ![t].wa = NoWrites]
        /\ UNCHANGED <<users, settings, deleted, last, resp>>

\* db.refresh(a); return _to_email_out(a)
RefreshAccount(t) ==
    /\ proc[t].pc = "committed"
    /\ proc' = [proc EXCEPT ![t].pc = "done",
                            ![t].loaded = ToEmailOut(proc[t].id, accounts[proc[t].id])]
    /\ UNCHANGED <<users, accounts, settings, deleted, last, resp>>

\* the rows t needs next are all locked by u
WaitsFor(t, u) ==
    /\ proc[t].pc = "demoting"
    /\ \/ /\ proc[t].todo # {}
          /\ \A i \in proc[t].todo : i \in Written(u)
       \/ /\ proc[t].todo = {}
          /\ proc[t].loaded.is_primary # TRUE
          /\ proc[t].id \in Written(u)

\* the database breaks a deadlock by rolling one transaction back
DeadlockVictim(t) ==
    /\ \E u \in Patchers \ {t} : WaitsFor(t, u) /\ WaitsFor(u, t)
    /\ proc' = [proc EXCEPT ![t].pc = "failed", ![t].todo = {},
                            ![t].wp = NoWrites, ![t].wa = NoWrites]
    /\ UNCHANGED <<users, accounts, settings, deleted, last, resp>>

NextPrimary ==
    \/ \E t \in Patchers : LoadAccount(t)
    \/ \E t \in Patchers : FlushIsActive(t)
    \/ \E t \in Patchers, i \in AccountIds : DemoteRow(t, i)
    \/ \E t \in Patchers : CommitPatch(t)
    \/ \E t \in Patchers : RefreshAccount(t)
    \/ \E t \in Patchers : DeadlockVictim(t)

SpecPrimary == InitPrimary /\ [][NextPrimary]_vars

----------------------------------------------------------------------------
(* A mutating request commit by commit (SpecPartial): a statement may fail, *)
(* which ends the request and rolls back what its session has not          *)
(* committed; GET requests of other clients read what is committed.        *)

\* bodies of PATCH /admin/settings with zero to two fields
PartialSettingsPatches ==
    {p \in AdminSettingsPatch :
        /\ p.agent_greeting \in {Null, Some(<<" ", "a", " ">>)}
        /\ p.gmail_summary_enabled \in {NoneB, SomeB(FALSE)}
        /\ p.gmail_account_id = Null
        /\ p.gmail_enabled_account_ids = Null
        /\ p.realtime_prompt_addendum = Null}

\* bodies of PATCH /admin/email-accounts/{id} with one or two fields
PartialAccountPatches ==
    {p \in EmailAccountPatch :
        /\ p.is_active \in {NoneB, SomeB(FALSE)}
        /\ p.is_primary \in {NoneB, SomeB(TRUE)}
        /\ p.display_name = Null
        /\ ModelDump(p) # {}}

\* the request in flight: where it is, its arguments, the next field of
\* PatchOrder, the fields it has committed, the table its session holds
Flight(pc, op, id, payload, apayload, hard, k, written, pending) ==
    [pc |-> pc, op |-> op, id |-> id, payload |-> payload, apayload |-> apayload,
     hard |-> hard, k |-> k, written |-> written, pending |-> pending]

Idle == proc.pc \in {"idle", "done", "failed"}

\* the fields of the body patch_settings has still to write, by position
FieldsLeft == {j \in proc.k..Len(PatchOrder) : PatchOrder[j] \in SettingsDump(proc.payload)}

ServerError == Reply(500, NoOut, <<>>, "Internal Server Error", FALSE, EmptyDoc, Null, NoSnapshot)

InitPartial ==
    /\ users = {AdminRow, OtherRow}
    /\ accounts = [i \in {"A", "B"} |-> Account(AdminRow.id, i, i = "A", TRUE, i = "A", i = "B")]
    /\ settings = NoSettings
    /\ deleted = {}
    /\ proc = Flight("idle", "none", "", NoSettingsPatch, NoPayload, FALSE, 1, {}, <<>>)
    /\ last = SettingsRequest("none", "", NoSettingsPatch)
    /\ resp = SettingsReply(EmptyDoc, Null, NoSnapshot)

\* patch_settings: user = get_or_create_primary_user(db); data = payload.model_dump(...)
BeginPatchSettings(payload) ==
    /\ Idle
    /\ users' = UsersAfterResolve(users)
    /\ proc' = Flight("writing", "patch_settings", "", payload, NoPayload, FALSE, 1, {},
                      accounts)
    /\ UNCHANGED <<accounts, settings, deleted, last, resp>>

\* patch_settings: the next set_setting of the body, committed by set_setting
WriteNextField ==
    /\ proc.pc = "writing"
    /\ FieldsLeft # {}
    /\ LET j == CHOOSE j \in FieldsLeft : \A i \in FieldsLeft : j <= i
       IN  /\ settings' = WriteField(settings, PrimaryUser(users).id, proc.payload,
                                     PatchOrder[j])
           /\ proc' = [proc EXCEPT !.k = j + 1, !.written = @ \cup {PatchOrder[j]}]
    /\ UNCHANGED <<users, accounts, deleted, last, resp>>

\* patch_settings: return get_settings(db)
FinishPatchSettings ==
    /\ proc.pc = "writing"
    /\ FieldsLeft = {}
    /\ proc' = [proc EXCEPT !.pc = "done"]
    /\ resp' = SettingsReply(EmptyDoc, Null, Snapshot(settings, PrimaryUser(users).id))
    /\ last' = SettingsRequest("patch_settings", "", proc.payload)
    /\ UNCHANGED <<users, accounts, settings, deleted>>

\* patch_email_account up to db.commit(): the changes are in the session only
BeginPatchAccount(account_id, payload) ==
    /\ Idle
    /\ users' = UsersAfterResolve(users)
    /\ IF ~FindAccount(accounts, account_id, PrimaryUser(users).id)
       THEN /\ proc' = Flight("done", "patch_account", account_id, NoSettingsPatch,
                              payload, FALSE, 1, {}, accounts)
            /\ resp' = NotFound
       ELSE /\ proc' = Flight("staged", "patch_account", account_id, NoSettingsPatch,
                              payload, FALSE, 1, {},
                              PatchedTable(accounts, PrimaryUser(users).id, account_id,
                                           payload))
            /\ resp' = resp
    /\ UNCHANGED <<accounts, settings, deleted, last>>

\* delete_email_account up to db.commit()
BeginDeleteAccount(account_id, hard) ==
    /\ Idle
    /\ users' = UsersAfterResolve(users)
    /\ IF ~FindAccount(accounts, account_id, PrimaryUser(users).id)
       THEN /\ proc' = Flight("done", "delete_account", account_id, NoSettingsPatch,
                              NoPayload, hard, 1, {}, accounts)
            /\ resp' = NotFound
       ELSE /\ proc' = Flight("staged", "delete_account", account_id, NoSettingsPatch,
                              NoPayload, hard, 1, {},
                              IF hard THEN HardDelete(accounts, account_id)
                              ELSE [accounts EXCEPT ![account_id] = SoftDisconnect(@)])
            /\ resp' = resp
    /\ UNCHANGED <<accounts, settings, deleted, last>>

\* db.commit() of patch_email_account and delete_email_account, and the return
CommitAccount ==
    /\ proc.pc = "staged"
    /\ accounts' = proc.pending
    /\ deleted' = deleted \cup (DOMAIN accounts \ DOMAIN proc.pending)
    /\ proc' = [proc EXCEPT !.pc = "done"]
    /\ resp' = IF proc.op = "delete_account"
               THEN Response(200, NoOut, <<>>,
                             IF proc.hard THEN "deleted" ELSE "disconnected", proc.hard)
               ELSE Response(200, ToEmailOut(proc.id, proc.pending[proc.id]), <<>>, "", FALSE)
    /\ UNCHANGED <<users, settings, last>>

\* a statement of the request in flight fails: the fault propagates
PersistenceFailure ==
    /\ \/ proc.pc = "writing" /\ FieldsLeft # {}
       \/ proc.pc = "staged"
    /\ proc' = [proc EXCEPT !.pc = "failed", !.pending = accounts]
    /\ resp' = ServerError
    /\ UNCHANGED <<users, accounts, settings, deleted, last>>

\* GET /admin/settings and GET /admin/email-accounts of another client
ConcurrentGet ==
    \/ GetSettings
    \/ ListEmailAccounts(TRUE)

NextPartial ==
    \/ \E p \in PartialSettingsPatches : BeginPatchSettings(p)
    \/ WriteNextField
    \/ FinishPatchSettings
    \/ \E id \in AccountIds, p \in PartialAccountPatches : BeginPatchAccount(id, p)
    \/ \E id \in AccountIds, h \in BOOLEAN : BeginDeleteAccount(id, h)
    \/ CommitAccount
    \/ PersistenceFailure
    \/ ConcurrentGet

SpecPartial == InitPartial /\ [][NextPartial]_vars

----------------------------------------------------------------------------
(* The admin routes behind the shared secret (SpecApi).  proc holds the     *)
(* server's environment.                                                   *)

\* values of ADMIN_API_KEY: not configured, configured
ApiKeys == {"", "k"}

\* values of the X-Vozlia-Admin-Key header: missing, right, wrong
Headers == {"", "k", "x"}

\* a comparison of header and key with no check that a key is configured
CompareOnly(expected, x_vozlia_admin_key) ==
    IF x_vozlia_admin_key # expected THEN 401 ELSE 200

\* require_admin_key: the status it raises, 200 when it returns True
require_admin_key(expected, x_vozlia_admin_key) ==
    IF expected = "" THEN 500
    ELSE IF x_vozlia_admin_key = "" \/ x_vozlia_admin_key # expected THEN 401
    ELSE 200

\* HTTPException raised by require_admin_key
Refused(code) ==
    Response(code, NoOut, <<>>,
             IF code = 500 THEN "ADMIN_API_KEY not configured" ELSE "Unauthorized", FALSE)

\* dependencies=[Depends(require_admin_key)]: the handler runs once the
\* dependency has returned
AdminRoute(header, route, handler) ==
    IF require_admin_key(proc.ADMIN_API_KEY, header) = 200
    THEN handler
    ELSE /\ resp' = Refused(require_admin_key(proc.ADMIN_API_KEY, header))
         /\ last' = [op |-> "refused", route |-> route, header |-> header]
         /\ UNCHANGED <<users, accounts, settings, deleted, proc>>

\* bodies of PATCH /admin/email-accounts/{id}: flags, or a display name
ApiAccountPatches ==
    {p \in EmailAccountPatch :
        \/ p.display_name = Null /\ p.is_primary # SomeB(FALSE)
        \/ p = [NoPayload EXCEPT !.display_name = Some(<<" ", "a", " ">>)]}

\* settings rows that name account A: the selected account and the allowlist
SettingsNamingA ==
    [NoSettings EXCEPT
        ![AdminRow.id]["gmail_account_id"] =
            <<DictValue(Doc("account_id", JStr(<<"A">>)))>>,
        ![AdminRow.id]["gmail_enabled_accounts"] =
            <<DictValue(Doc("account_ids", JList(<< <<"A">> >>)))>>]

InitApi ==
    /\ \/ /\ users = {AdminRow, OtherRow}
          /\ accounts = [i \in AccountIds |->
                            IF i = "C" THEN Account(OtherRow.id, i, TRUE, TRUE, TRUE, TRUE)
                            ELSE Account(AdminRow.id, i, i = "A", TRUE, i = "A", i = "B")]
          /\ settings \in {NoSettings, SettingsNamingA}
       \/ /\ users = {OtherRow}
          /\ accounts = [i \in {"C"} |-> Account(OtherRow.id, i, TRUE, TRUE, TRUE, TRUE)]
          /\ settings = NoSettings
    /\ deleted = {}
    /\ proc \in [ADMIN_API_KEY : ApiKeys]
    /\ last = Request("none", "", NoPayload, FALSE, FALSE, {})
    /\ resp = Response(0, NoOut, <<>>, "", FALSE)

\* the five routes, for a request that carries this header
AdminRoutes(h) ==
    \/ AdminRoute(h, "get_settings", GetSettings)
    \/ \E p \in PartialSettingsPatches :
          AdminRoute(h, "patch_settings", PatchSettings(p))
    \/ \E inc \in BOOLEAN :
          AdminRoute(h, "list_email_accounts", ListEmailAccounts(inc))
    \/ \E id \in AccountIds, p \in ApiAccountPatches :
          AdminRoute(h, "patch_email_account", PatchEmailAccount(id, p))
    \/ \E id \in AccountIds, hard \in BOOLEAN :
          AdminRoute(h, "delete_email_account", DeleteEmailAccount(id, hard))

NextApi == \E h \in Headers : AdminRoutes(h)

SpecApi == InitApi /\ [][NextApi]_vars

----------------------------------------------------------------------------
(* Claims on concurrent requests.                                          *)

\* C7: there is at most one UserSetting row per (user, key) in every state that
\* set_setting calls reach, one after the other or interleaved, also when two
\* calls both find no row before either commits.
C7_OneRowPerUserKey ==
    \A u \in UserIds, k \in Keys : Len(settings[u][k]) <= 1

\* two calls on one key both found no row; one inserted, the other was refused
C7_Witness ==
    /\ proc[1].key = proc[2].key
    /\ ~proc[1].seen /\ ~proc[2].seen
    /\ proc[1].pc = "done"
    /\ proc[2].pc = "failed"
    /\ Len(settings[AdminRow.id][proc[1].key]) = 1

\* C2: once two patch requests with is_primary=true on distinct accounts of one
\* user, each its own transaction, have both committed, at most one account of
\* that user is primary, whatever the interleaving.
C2_RacingPromotions ==
    (/\ proc[1].id # proc[2].id
     /\ \A t \in Patchers : proc[t].pc \in {"committed", "done"})
        => Cardinality(Primaries(accounts, AdminRow.id)) <= 1

\* both committed, the request on B last: the response of the request on A,
\* read after that, shows A demoted again
C2_Witness ==
    /\ proc[1].id = "A" /\ proc[2].id = "B"
    /\ proc[1].pc = "done" /\ proc[2].pc = "done"
    /\ proc[1].loaded.is_primary = FALSE
    /\ accounts["B"].is_primary
    /\ ~accounts["C"].is_primary

AdminRows == {u \in users : u.email = ADMIN_EMAIL}

\* C8: once concurrent get_or_create_primary_user calls that started without an
\* admin row have all ended, exactly one User row has the admin email and every
\* call returned it; none failed.
C8_BothCallersGetTheUser ==
    (\A c \in Callers : proc[c].pc \in {"done", "failed"}) =>
        /\ Cardinality(AdminRows) = 1
        /\ \A c \in Callers : proc[c].pc = "done" /\ proc[c].ret \in AdminRows

\* C9: the changes of an endpoint are committed all together or not at all: of
\* the fields a PATCH /admin/settings provides, the committed table holds all
\* or none, after a failure between two writes and for a concurrent GET alike;
\* a patch or delete of an email account changes the committed table once, to
\* all of its field changes.
C9_AllOrNothing ==
    /\ [](proc.op = "patch_settings"
            => proc.written \in {{}, SettingsDump(proc.payload)})
    /\ [][proc.op \in {"patch_account", "delete_account"}
            => accounts' \in {accounts, proc.pending}]_vars

----------------------------------------------------------------------------
(* Claims on the whole API, under SpecApi.                                  *)

\* the response of the admin routes to the request req, as a function of the
\* tables it is served from
ResponseTo(req, us, accts, rows) ==
    LET uid   == PrimaryUser(us).id
        found == FindAccount(accts, req.id, uid)
    IN  CASE req.op = "list" ->
                Response(200, NoOut, ListOut(accts, uid, req.include_inactive), "", FALSE)
          [] req.op = "patch" ->
                IF ~found THEN NotFound
                ELSE Response(200,
                              ToEmailOut(req.id,
                                         PatchedTable(accts, uid, req.id, req.payload)[req.id]),
                              <<>>, "", FALSE)
          [] req.op = "delete" ->
                IF ~found THEN NotFound
                ELSE Response(200, NoOut, <<>>,
                              IF req.hard THEN "deleted" ELSE "disconnected", req.hard)
          [] req.op = "get_settings" ->
                SettingsReply(EmptyDoc, Null, Snapshot(rows, uid))
          [] OTHER ->
                SettingsReply(EmptyDoc, Null,
                              Snapshot(WriteFrom(rows, uid, req.payload, 1), uid))

\* the tables that differ from accts in the four secret columns only: every
\* secret wiped, every secret replaced
SecretVariants(accts) ==
    {[i \in DOMAIN accts |->
        [f \in DOMAIN accts[i] |-> IF f \in SecretFields THEN x ELSE accts[i][f]]]
     : x \in {Null, Some(<<"b">>)}}

\* C11: the response to a request is the response the same request gets from
\* tables that differ only in the secret columns of the accounts: list, patch,
\* delete, settings get and settings patch show nothing of them.
C11_SecretsNeverShown ==
    [][last'.op # "refused" =>
          \A v \in SecretVariants(accounts) :
              resp' = ResponseTo(last', users, v, settings)]_vars

\* a row that holds OAuth tokens and one that holds an encrypted password
\* were listed
C11_Witness ==
    /\ last.op = "list"
    /\ resp.code = 200
    /\ \E k \in DOMAIN resp.rows :
          resp.rows[k].id = "A" /\ accounts["A"].oauth_access_token # Null
    /\ \E k \in DOMAIN resp.rows :
          resp.rows[k].id = "B" /\ accounts["B"].password_enc # Null

\* C17: a request whose header is empty or differs from the configured
\* ADMIN_API_KEY is answered Unauthorized, any request to a server with no key
\* configured is answered with the configuration error, and neither creates,
\* changes or deletes a User, UserSetting or EmailAccount row: no route has
\* another outcome for such a request.
C17_RefusedBeforeAnyWork ==
    \A h \in Headers :
        LET key == proc.ADMIN_API_KEY
        IN  (key = "" \/ h = "" \/ h # key) =>
               ~ENABLED (/\ AdminRoutes(h)
                         /\ ~(/\ resp'.code = IF key = "" THEN 500 ELSE 401
                              /\ resp'.status = IF key = "" THEN "ADMIN_API_KEY not configured"
                                                ELSE "Unauthorized"
                              /\ UNCHANGED <<users, accounts, settings>>))

\* a settings patch with a wrong key was refused before the primary user
\* existed, and no User row was created
C17_Witness ==
    /\ last.op = "refused"
    /\ last.route = "patch_settings"
    /\ last.header = "x"
    /\ proc.ADMIN_API_KEY = "k"
    /\ resp.code = 401
    /\ users = {OtherRow}
    /\ settings = NoSettings

\* C19: a successful patch or delete of account X leaves every other account as
\* it was, but for is_primary of the other accounts of X's user, which is false
\* after a patch with is_primary=true; it changes no UserSetting row, and the
\* selected account id and the allowlist read as before, also when they name X.
C19_OtherAccountsUntouched ==
    [][(last'.op \in {"patch", "delete"} /\ resp'.code = 200) =>
          LET x   == last'.id
              uid == PrimaryUser(users).id
          IN  /\ \A i \in DOMAIN accounts \ {x} :
                    /\ i \in DOMAIN accounts'
                    /\ accounts'[i] =
                          IF /\ last'.op = "patch"
                             /\ last'.payload.is_primary = SomeB(TRUE)
                             /\ accounts[i].user_id = accounts[x].user_id
                          THEN [accounts[i] EXCEPT !.is_primary = FALSE]
                          ELSE accounts[i]
              /\ settings' = settings
              /\ get_selected_gmail_account_id(settings', uid)
                    = get_selected_gmail_account_id(settings, uid)
              /\ get_enabled_gmail_account_ids(settings', uid)
                    = get_enabled_gmail_account_ids(settings, uid)]_vars

\* A was hard-deleted while the selected account and the allowlist name it:
\* both still do, and B and C are as they were
C19_Witness ==
    /\ last.op = "delete"
    /\ last.hard
    /\ last.id = "A"
    /\ resp.status = "deleted"
    /\ DOMAIN accounts = {"B", "C"}
    /\ accounts["B"].password_enc = Tok
    /\ accounts["C"].is_primary
    /\ get_selected_gmail_account_id(settings, AdminRow.id) = Some(<<"A">>)
    /\ get_enabled_gmail_account_ids(settings, AdminRow.id) = Some(<< <<"A">> >>)

----------------------------------------------------------------------------
(* Claims on the settings store, under SpecSettings.                       *)

AllowlistRows == settings[AdminRow.id]["gmail_enabled_accounts"]

ReadAllowlist == last.op = "get_enabled_ids"

SetAllowlistEmpty ==
    /\ last.op = "set_enabled_ids"
    /\ last.payload.gmail_enabled_account_ids = Some(<<>>)

\* C5 as stated: with no row for the enabled-account-ids setting the accessor
\* returns null; read right after set_enabled_gmail_account_ids([]) it returns [].
C5_NeverSetIsNull ==
    /\ []((ReadAllowlist /\ AllowlistRows = <<>>) => resp.ids = Null)
    /\ [][(SetAllowlistEmpty /\ GetEnabledGmailAccountIds) => resp'.ids = Some(<<>>)]_vars

\* C5 amended: with no row for the enabled-account-ids setting the accessor
\* returns the empty list of the default document, not null; read right after
\* set_enabled_gmail_account_ids([]) it returns [].
C5_NeverSetIsEmptyList ==
    /\ []((ReadAllowlist /\ AllowlistRows = <<>>) => resp.ids = Some(<<>>))
    /\ [][(SetAllowlistEmpty /\ GetEnabledGmailAccountIds) => resp'.ids = Some(<<>>)]_vars

\* the allowlist was read while no row for it was stored
C5_Witness ==
    /\ ReadAllowlist
    /\ AllowlistRows = <<>>
    /\ resp.ids = Some(<<>>)

\* C6: get_setting returns the key's document of the defaults table when no row
\* is stored, the empty document for a key the table does not have, the stored
\* value when the row holds a structured object; it answers for every key and
\* leaves users, accounts and settings as they were.
C6_GetSetting ==
    /\ [](last.op = "get_setting" =>
            LET rows == settings[AdminRow.id][last.key]
            IN  /\ (rows = <<>> /\ last.key \in RecognizedKeys)
                     => resp.doc = DEFAULTS[last.key]
                /\ (rows = <<>> /\ last.key \notin RecognizedKeys)
                     => resp.doc = EmptyDoc
                /\ (rows # <<>> /\ rows[1].isDict) => resp.doc = rows[1].d)
    /\ [](\A k \in Keys : ENABLED GetSetting(k))
    /\ [][last'.op = "get_setting" => UNCHANGED <<users, accounts, settings>>]_vars

\* the default selected account was read while rows of other keys were stored
C6_Witness ==
    /\ last.op = "get_setting"
    /\ last.key = "gmail_account_id"
    /\ settings[AdminRow.id]["gmail_account_id"] = <<>>
    /\ settings[AdminRow.id]["agent_greeting"] # <<>>
    /\ resp.doc = Doc("account_id", JStr(AccountIdText))

\* C12: a setter applied a second time in a row with the same value leaves the
\* stored documents and the number of rows as the first application left them
\* and returns what the first returned: PATCH /admin/settings for each of its
\* five fields, set_enabled_gmail_account_ids, and set_setting under them.
C12_SettersIdempotent ==
    /\ [][(last.op = "patch_settings" /\ PatchSettings(last.payload))
            => (settings' = settings /\ resp' = resp)]_vars
    /\ [][(last.op = "set_enabled_ids"
             /\ SetEnabledGmailAccountIds(last.payload.gmail_enabled_account_ids.v))
            => (settings' = settings /\ resp' = resp)]_vars
    /\ [](\A k \in Keys, v \in UpsertValues :
            LET once == set_setting(settings, AdminRow.id, k, v)
            IN  /\ set_setting(once, AdminRow.id, k, v) = once
                /\ Len(once[AdminRow.id][k]) = 1
                /\ get_setting(once, AdminRow.id, k) = v)

\* a request that sets all five fields was served, over a stored row
C12_Witness ==
    /\ last.op = "patch_settings"
    /\ SettingsDump(last.payload) = {PatchOrder[k] : k \in 1..Len(PatchOrder)}
    /\ last.payload.gmail_enabled_account_ids.v # <<>>
    /\ \A k \in RecognizedKeys : Len(settings[AdminRow.id][k]) = 1
    /\ resp.snapshot.agent_greeting = <<"a">>
    /\ ENABLED PatchSettings(last.payload)

\* the text GET /admin/settings returns for the request text t
RoundTrip(t, default) == IF Strip(t) # <<>> THEN Strip(t) ELSE default

\* C15: GET /admin/settings served after a PATCH /admin/settings that gave
\* agent_greeting = t returns t without its leading and trailing whitespace,
\* or the default greeting when nothing is left; likewise
\* realtime_prompt_addendum.
C15_TextRoundTrip ==
    [][(last.op = "patch_settings" /\ GetSettings) =>
          /\ ~last.payload.agent_greeting.isNull
               => resp'.snapshot.agent_greeting =
                     RoundTrip(last.payload.agent_greeting.v, GreetingText)
          /\ ~last.payload.realtime_prompt_addendum.isNull
               => resp'.snapshot.realtime_prompt_addendum =
                     RoundTrip(last.payload.realtime_prompt_addendum.v, AddendumText)]_vars

\* a blank greeting and a padded addendum were patched and read back
C15_Witness ==
    /\ last.op = "get_settings"
    /\ settings[AdminRow.id]["agent_greeting"] = <<DictValue(Doc("text", JStr(<<>>)))>>
    /\ settings[AdminRow.id]["realtime_prompt_addendum"] =
          <<DictValue(Doc("text", JStr(<<"a">>)))>>
    /\ resp.snapshot.agent_greeting = GreetingText
    /\ resp.snapshot.realtime_prompt_addendum = <<"a">>

\* the field of AdminSettingsPatch that is stored under the key k
FieldOf(k) == IF k = "gmail_enabled_accounts" THEN "gmail_enabled_account_ids" ELSE k

\* C16: PATCH /admin/settings leaves the rows of every key whose field the body
\* does not give, and of every other user, as they were, changes no
\* EmailAccount row, and returns the snapshot that the GET /admin/settings
\* served next returns.
C16_PatchSettingsFrame ==
    /\ [][last'.op = "patch_settings" =>
            LET uid  == PrimaryUser(users).id
                data == SettingsDump(last'.payload)
            IN  /\ \A u \in UserIds, k \in Keys :
                      (u # uid \/ FieldOf(k) \notin data)
                        => settings'[u][k] = settings[u][k]
                /\ accounts' = accounts
                /\ resp'.snapshot = Snapshot(settings', uid)]_vars
    /\ [][(last.op = "patch_settings" /\ GetSettings)
            => resp'.snapshot = resp.snapshot]_vars

\* only the summary flag was patched, over rows of two other keys
C16_Witness ==
    /\ last.op = "patch_settings"
    /\ SettingsDump(last.payload) = {"gmail_summary_enabled"}
    /\ settings[AdminRow.id]["gmail_summary_enabled"] =
          <<DictValue(Doc("enabled", JBool(FALSE)))>>
    /\ settings[AdminRow.id]["agent_greeting"] = <<DictValue(Doc("text", JStr(<<"a">>)))>>
    /\ settings[AdminRow.id]["gmail_enabled_accounts"] = <<ScalarValue>>
    /\ resp.snapshot.gmail_summary_enabled = FALSE
    /\ resp.snapshot.agent_greeting = <<"a">>

----------------------------------------------------------------------------
(* Claims on the email-account endpoints, under Spec.                      *)

PatchOk == last.op = "patch" /\ resp.code = 200

SoftDeleteOk == last.op = "delete" /\ ~last.hard /\ resp.code = 200

\* C1: at most one account per user has is_primary set in every state that
\* patch and delete calls reach; right after a successful patch with
\* is_primary=true the patched account is the only primary one of its user.
C1_SinglePrimary ==
    /\ \A uid \in UserIds : Cardinality(Primaries(accounts, uid)) <= 1
    /\ (PatchOk /\ last.payload.is_primary = SomeB(TRUE))
         => Primaries(accounts, accounts[last.id].user_id) = {last.id}

\* B was made primary while A was
C1_Witness ==
    /\ PatchOk
    /\ last.id = "B"
    /\ last.payload.is_primary = SomeB(TRUE)
    /\ last.primary_before = {"A"}
    /\ "C" \in DOMAIN accounts
    /\ accounts["C"].user_id = accounts["B"].user_id
    /\ accounts["B"].is_primary

\* C3: after a successful soft disconnect the row is still there under its id,
\* inactive, not primary, its four secret fields null, and the list call with
\* include_inactive=false made next does not return it.
C3_SoftDisconnect ==
    /\ [](SoftDeleteOk =>
            /\ last.id \in DOMAIN accounts
            /\ accounts[last.id].is_active = FALSE
            /\ accounts[last.id].is_primary = FALSE
            /\ \A f \in SecretFields : accounts[last.id][f] = Null)
    /\ [][(SoftDeleteOk /\ ListEmailAccounts(FALSE))
            => \A k \in DOMAIN resp'.rows : resp'.rows[k].id # last.id]_vars

\* the account holding all four secrets, primary and active, was disconnected
C3_Witness ==
    /\ SoftDeleteOk
    /\ last.id = "A"
    /\ "A" \in DOMAIN accounts
    /\ accounts["A"].password_enc = Null
    /\ accounts["A"].oauth_access_token = Null
    /\ \E i \in DOMAIN accounts : accounts[i].is_primary

\* C4: an account id that a hard disconnect removed never has a row again,
\* is in no list response, and every patch or delete naming it afterwards
\* answers NotFound.
C4_HardDeleteIsFinal ==
    \A x \in deleted :
        /\ x \notin DOMAIN accounts
        /\ last.op = "list" => \A k \in DOMAIN resp.rows : resp.rows[k].id # x
        /\ (last.op \in {"patch", "delete"} /\ last.id = x)
             => \/ resp = NotFound
                \/ last.op = "delete" /\ last.hard /\ resp.status = "deleted"

\* a patch of the removed id was refused
C4_Witness ==
    /\ "A" \in deleted
    /\ last.op = "patch"
    /\ last.id = "A"
    /\ last.payload.is_active = SomeB(TRUE)
    /\ resp = NotFound

\* C13: a patch or delete naming an id that has no row, or a row of another
\* user than the primary user, answers NotFound and changes no EmailAccount
\* row and no UserSetting row.
C13_NotFoundChangesNothing ==
    [][(/\ last'.op \in {"patch", "delete"}
        /\ \/ last'.id \notin DOMAIN accounts
           \/ accounts[last'.id].user_id # PrimaryUser(users).id)
          => (resp' = NotFound /\ accounts' = accounts /\ settings' = settings)]_vars

\* a promotion of another user's account was refused and the admin's primary
\* account kept its flag; the id a hard delete removed was refused too
C13_Witness ==
    /\ last.op = "patch"
    /\ last.id = "C"
    /\ last.payload.is_primary = SomeB(TRUE)
    /\ last.payload.is_active = SomeB(FALSE)
    /\ resp = NotFound
    /\ "C" \in DOMAIN accounts
    /\ accounts["C"].user_id = OtherRow.id
    /\ accounts["C"].is_active
    /\ Primaries(accounts, AdminRow.id) # {}
    /\ deleted # {}

\* C14: delete of an existing account of the primary user answers
\* {status: "disconnected", hard: false} when soft and {status: "deleted",
\* hard: true} when hard; the hard delete of the id a soft disconnect was just
\* served for answers "deleted", not NotFound; "deleted" is the answer of no
\* other call.
C14_DeleteStatus ==
    /\ [][(/\ last'.op = "delete"
           /\ last'.id \in DOMAIN accounts
           /\ accounts[last'.id].user_id = PrimaryUser(users).id)
            => /\ resp'.code = 200
               /\ resp'.hard = last'.hard
               /\ resp'.status = IF last'.hard THEN "deleted" ELSE "disconnected"]_vars
    /\ [][(SoftDeleteOk /\ DeleteEmailAccount(last.id, TRUE))
            => (resp'.code = 200 /\ resp'.status = "deleted" /\ resp'.hard = TRUE)]_vars
    /\ [](resp.status = "deleted" => (last.op = "delete" /\ last.hard))

\* A was soft-disconnected, and the hard delete of A that may follow removes
\* the row and answers "deleted"
C14_Witness ==
    /\ SoftDeleteOk
    /\ last.id = "A"
    /\ resp.status = "disconnected"
    /\ accounts["A"].is_active = FALSE
    /\ ENABLED (/\ DeleteEmailAccount("A", TRUE)
                /\ resp'.status = "deleted"
                /\ "A" \notin DOMAIN accounts')

\* C18: no request turns a secret field of an account from null to a value and
\* none adds a row, so the four secrets a soft disconnect wiped stay null
\* whatever follows, a patch with is_active=true or is_primary=true included.
C18_SecretsOnlyWiped ==
    [][/\ DOMAIN accounts' \subseteq DOMAIN accounts
       /\ \A i \in DOMAIN accounts', f \in SecretFields :
             accounts[i][f] = Null => accounts'[i][f] = Null]_vars

\* A, which held all four secrets, was disconnected and later made active and
\* primary again by a patch: its secrets are still null
C18_Witness ==
    /\ PatchOk
    /\ last.id = "A"
    /\ last.payload.is_active = SomeB(TRUE)
    /\ last.payload.is_primary = SomeB(TRUE)
    /\ accounts["A"].is_active
    /\ accounts["A"].is_primary
    /\ \A f \in SecretFields : accounts["A"][f] = Null

\* C10: a successful patch leaves is_active, is_primary and display_name equal
\* to the requested value where one was given (display_name trimmed, null when
\* that is empty) and unchanged where none was given.
C10_PatchAppliesGivenFields ==
    [][(last'.op = "patch" /\ resp'.code = 200) =>
          LET id  == last'.id
              p   == last'.payload
              old == accounts[id]
              new == accounts'[id]
              t   == Strip(p.display_name.v)
          IN  /\ new.is_active =
                    IF p.is_active.given THEN p.is_active.v ELSE old.is_active
              /\ new.is_primary =
                    IF p.is_primary.given THEN p.is_primary.v ELSE old.is_primary
              /\ new.display_name =
                    IF p.display_name.isNull THEN old.display_name
                    ELSE IF t = <<>> THEN Null ELSE Some(t)]_vars

====
